---- MODULE Spec2Model ----
(***************************************************************************)
(* Model of the OpenCode Micromanager plugin                               *)
(* (.opencode/plugins/message-interceptor.ts).                             *)
(*                                                                         *)
(* Strings are sequences of tokens.  A token is either one of the          *)
(* characters the code inspects (newline, space, dash), the literal        *)
(* "(Current - Editable)" as one unit, or a chunk of ordinary text that    *)
(* holds none of these at a place where the code would look for them.      *)
(* Indices are JavaScript's: 0-based, -1 for "not found".                  *)
(***************************************************************************)
EXTENDS Integers, Sequences, FiniteSets, TLC

\* ------------------------------------------------------------------------
\* Bounds of the model
\* ------------------------------------------------------------------------
MaxRequests == 2

MaxParts == 2

MaxHistory == 1

MaxConfigTokens == 3

\* ------------------------------------------------------------------------
\* JavaScript string primitives, on token sequences
\* ------------------------------------------------------------------------
NL == "\n"

SP == " "

DASH == "-"

NotFound == 0 - 1

SetMax(S) == CHOOSE x \in S : \A y \in S : y <= x

SetMin(S) == CHOOSE x \in S : \A y \in S : x <= y

\* pat occurs in s at 0-based index i
OccursAt(s, pat, i) ==
    /\ i + Len(pat) <= Len(s)
    /\ \A k \in 1..Len(pat) : s[i + k] = pat[k]

\* String.prototype.lastIndexOf(pat)
LastIndexOf(s, pat) ==
    LET hits == {i \in 0..Len(s) : OccursAt(s, pat, i)}
    IN  IF hits = {} THEN NotFound ELSE SetMax(hits)

\* String.prototype.indexOf(pat, from)
IndexOf(s, pat, from) ==
    LET hits == {i \in from..Len(s) : OccursAt(s, pat, i)}
    IN  IF hits = {} THEN NotFound ELSE SetMin(hits)

\* String.prototype.substring(from) and substring(from, to)
SubstringFrom(s, from) == SubSeq(s, from + 1, Len(s))

Substring(s, from, to) == SubSeq(s, from + 1, to)

\* what \s matches among the tokens
IsSpace(c) == c \in {NL, SP}

\* String.prototype.trim()
Trim(s) ==
    LET keep == {i \in 1..Len(s) : ~IsSpace(s[i])}
    IN  IF keep = {} THEN <<>> ELSE SubSeq(s, SetMin(keep), SetMax(keep))

\* Array.prototype.join(sep) on an array of strings
RECURSIVE Join(_, _)
Join(lines, sep) ==
    IF Len(lines) = 0 THEN <<>>
    ELSE IF Len(lines) = 1 THEN lines[1]
    ELSE lines[1] \o sep \o Join(Tail(lines), sep)

\* concatenation of a sequence of sequences
RECURSIVE Flatten(_)
Flatten(ss) == IF Len(ss) = 0 THEN <<>> ELSE ss[1] \o Flatten(Tail(ss))

\* ------------------------------------------------------------------------
\* State
\* ------------------------------------------------------------------------
VARIABLES
    cfgFiles,          \* the two configuration files on disk
    started,           \* the plugin function has returned its hooks
    config,            \* let config
    analytics,         \* const analytics
    capturedSystem,    \* let capturedSystem
    capturedModel,     \* let capturedModel
    outputMessages,    \* output.messages of the messages.transform call
    pc,                \* where the messages.transform call stands
    formattedContext,  \* its local formattedContext
    tempFile,          \* its local tempFile (0: none yet)
    tempDirs,          \* directories mkdtemp has made
    tempFiles,         \* temp files on disk
    fileText,          \* what the call's temp file holds
    req,               \* the host's current LLM request
    nRequests,         \* requests the host has started
    entry,             \* output.messages as the host passed it in
    editorRan,         \* execSync was called during the call
    outcome            \* how the call ended

vars == <<cfgFiles, started, config, analytics, capturedSystem, capturedModel,
          outputMessages, pc, formattedContext, tempFile, tempDirs, tempFiles,
          fileText, req, nRequests, entry, editorRan, outcome>>

pluginVars == <<config, analytics, capturedSystem, capturedModel>>

callVars == <<outputMessages, pc, formattedContext, tempFile, fileText, entry, editorRan,
              outcome>>

\* ------------------------------------------------------------------------
\* The editor document
\* ------------------------------------------------------------------------
editableMarker == "(Current - Editable)"

Separator == <<DASH, DASH, DASH>>

\* new Date().toISOString(): the clock is outside the model
Timestamp == "2025-01-01T00:00:00.000Z"

\* capturedModel = null
NoModel == [providerID |-> "", modelID |-> ""]

toUpperCase(role) ==
    CASE role = "user" -> "USER"
      [] role = "assistant" -> "ASSISTANT"
      [] OTHER -> role

\* the code fence lines (three backquotes, written out as a word here)
Fence == "[fence]"

FenceJson == "[fence]json"

\* JSON.stringify(part).substring(0, 200) of a part of another type
PartJson(part) == "{\"type\":\"" \o part.type \o "\"}"

\* the lines one part contributes (without the blank line after it)
PartLines(part) ==
    IF part.type = "text" THEN << part.text >>
    ELSE IF part.type = "tool" THEN
        << <<"**[Tool: " \o (IF part.tool # "" THEN part.tool
                              ELSE IF part.name # "" THEN part.name
                              ELSE "unknown") \o "]**">> >>
        \o (IF part.input # <<>>
            THEN << <<FenceJson>>, part.input, <<Fence>> >> ELSE <<>>)
        \o (IF part.output # <<>>
            THEN << <<"Output:">>, <<Fence>>, part.output, <<Fence>> >> ELSE <<>>)
    ELSE << <<"[" \o part.type \o ": " \o PartJson(part) \o "]">> >>

HeaderLabel(i, n, role) ==
    "## [" \o ToString(i) \o "/" \o ToString(n) \o "] " \o toUpperCase(role)

MessageLines(messages, i) ==
    LET msg == messages[i]
        n == Len(messages)
        isLast == i = n
    IN  << IF isLast /\ msg.role = "user"
           THEN <<HeaderLabel(i, n, msg.role), SP, editableMarker>>
           ELSE <<HeaderLabel(i, n, msg.role)>>,
           <<>> >>
        \o Flatten([k \in 1..Len(msg.parts) |-> PartLines(msg.parts[k]) \o << <<>> >>])
        \o << Separator, <<>> >>

formatFullContext(system, messages, model) ==
    LET lines ==
            << <<"# OpenCode Micromanager - Full LLM Context">>,
               <<>>,
               <<"**Timestamp:** " \o Timestamp>> >>
            \o (IF model # NoModel
                THEN << <<"**Model:** " \o model.providerID \o "/" \o model.modelID>> >>
                ELSE <<>>)
            \o << <<"**Messages:** " \o ToString(Len(messages))>>, <<>> >>
            \o (IF Len(system) > 0
                THEN << <<"## System Prompt">>, <<>> >>
                     \o Flatten([k \in 1..Len(system) |-> << system[k], <<>> >>])
                     \o << Separator, <<>> >>
                ELSE <<>>)
            \o Flatten([i \in 1..Len(messages) |-> MessageLines(messages, i)])
    IN  Join(lines, <<NL>>)

\* ------------------------------------------------------------------------
\* Splicing the edited text back
\* ------------------------------------------------------------------------
\* contentAfter.replace(/^\n+/, "")
RECURSIVE StripLeadingNewlines(_)
StripLeadingNewlines(s) ==
    IF Len(s) > 0 /\ Head(s) = NL THEN StripLeadingNewlines(Tail(s)) ELSE s

\* newText, for a content with a marker and a newline after it
NewText(editedContent, afterMarker) ==
    LET contentAfter == StripLeadingNewlines(SubstringFrom(editedContent, afterMarker + 1))
        trailingSeparator == LastIndexOf(contentAfter, <<NL>> \o Separator)
    IN  Trim(IF trailingSeparator # NotFound
             THEN Substring(contentAfter, 0, trailingSeparator)
             ELSE contentAfter)

TextPartIndices(parts) == {i \in 1..Len(parts) : parts[i].type = "text"}

\* the parts of the last message after the read-back, and how many were edited
Splice(parts, editedContent) ==
    LET markerIndex == LastIndexOf(editedContent, <<editableMarker>>)
        afterMarker == IndexOf(editedContent, <<NL>>, markerIndex)
    IN  IF markerIndex = NotFound \/ afterMarker = NotFound \/ TextPartIndices(parts) = {}
        THEN [parts |-> parts, edited |-> 0]
        ELSE [parts |-> [parts EXCEPT ![SetMin(TextPartIndices(parts))].text =
                                         NewText(editedContent, afterMarker)],
              edited |-> 1]

\* ------------------------------------------------------------------------
\* Configuration files
\* ------------------------------------------------------------------------
\* A file's text is a sequence of tokens: the punctuation of JSON and of
\* comments, newlines, members ("key": value), and other text.
LBRACE == "{"

RBRACE == "}"

COMMA == ","

LineComment == "//"

BlockOpen == "/*"

BlockClose == "*/"

\* the members a file may hold, each with the key and value it parses to
MemberValue ==
    [ t \in { "\"autoEdit\": true", "\"autoEdit\": false", "\"enableEditor\": false",
              "\"showSystemMessages\": false", "\"messageTypes\": [\"user\"]",
              "\"logLevel\": \"debug\"", "\"editor\": \"subl -w\"" } |->
        CASE t = "\"autoEdit\": true" -> [key |-> "autoEdit", value |-> TRUE]
          [] t = "\"autoEdit\": false" -> [key |-> "autoEdit", value |-> FALSE]
          [] t = "\"enableEditor\": false" -> [key |-> "enableEditor", value |-> FALSE]
          [] t = "\"showSystemMessages\": false" -> [key |-> "showSystemMessages", value |-> FALSE]
          [] t = "\"messageTypes\": [\"user\"]" -> [key |-> "messageTypes", value |-> {"user"}]
          [] t = "\"logLevel\": \"debug\"" -> [key |-> "logLevel", value |-> "debug"]
          [] t = "\"editor\": \"subl -w\"" -> [key |-> "editor", value |-> "subl -w"] ]

IsMember(t) == t \in DOMAIN MemberValue

DefaultConfig ==
    [ logLevel |-> "info",
      enableEditor |-> TRUE,
      editor |-> "code -w",
      autoEdit |-> FALSE,
      showSystemMessages |-> TRUE,
      messageTypes |-> {"user", "assistant"} ]

\* str.replace(/\/\/.*$/gm, ""): drop each // and what follows it on its line
RECURSIVE StripLineComments(_, _)
StripLineComments(str, inComment) ==
    IF Len(str) = 0 THEN <<>>
    ELSE IF Head(str) = NL THEN <<NL>> \o StripLineComments(Tail(str), FALSE)
    ELSE IF inComment \/ Head(str) = LineComment THEN StripLineComments(Tail(str), TRUE)
    ELSE <<Head(str)>> \o StripLineComments(Tail(str), FALSE)

\* str.replace(/\/\*[\s\S]*?\*\//g, ""): drop each /* up to the nearest */
RECURSIVE StripBlockComments(_)
StripBlockComments(str) ==
    IF Len(str) = 0 THEN <<>>
    ELSE IF Head(str) = BlockOpen /\ IndexOf(str, <<BlockClose>>, 1) # NotFound
         THEN StripBlockComments(SubstringFrom(str, IndexOf(str, <<BlockClose>>, 1) + 1))
    ELSE <<Head(str)>> \o StripBlockComments(Tail(str))

stripJsonComments(str) == StripBlockComments(StripLineComments(str, FALSE))

\* JSON.parse: an object of members separated by commas, or the literal null;
\* anything else throws
JsonTokens(str) == SelectSeq(str, LAMBDA t : t # NL)

JsonParses(str) ==
    LET t == JsonTokens(str)
        n == Len(t)
    IN  \/ t = <<"null">>
        \/ /\ n >= 2
           /\ t[1] = LBRACE
           /\ t[n] = RBRACE
           /\ n = 2 \/ n % 2 = 1
           /\ \A i \in 2..(n - 1) : IF i % 2 = 0 THEN IsMember(t[i]) ELSE t[i] = COMMA

\* the object JSON.parse returns: a later member of the same key wins
JsonObject(str) ==
    LET t == JsonTokens(str)
        at == {i \in 1..Len(t) : IsMember(t[i])}
        keys == {MemberValue[t[i]].key : i \in at}
    IN  [k \in keys |->
            MemberValue[t[SetMax({i \in at : MemberValue[t[i]].key = k})]].value]

\* { ...config, ...loadedConfig }
Spread(base, loaded) ==
    [k \in DOMAIN base \cup DOMAIN loaded |->
        IF k \in DOMAIN loaded THEN loaded[k] ELSE base[k]]

\* a file that cannot be read
Unreadable == [readable |-> FALSE, data |-> <<>>]

FileOf(data) == [readable |-> TRUE, data |-> data]

\* ReadConfigData with the two files tried in the other order
ReadConfigData_JsonFirst(fs) == IF fs.json.readable THEN fs.json ELSE fs.jsonc

\* the inner try/catch: .micromanager.jsonc, else .micromanager.json
\* ([readable |-> FALSE]: the second readFile threw as well)
ReadConfigData(fs) == IF fs.jsonc.readable THEN fs.jsonc ELSE fs.json

\* JSON.parse of the stripped text and the merge; a throw leaves config alone
MergeParsed(base, text) ==
    IF ~JsonParses(text) THEN base ELSE Spread(base, JsonObject(text))

\* the outer try/catch around reading, parsing and merging (the stripped
\* text is computed once, as the value bound to `text`)
LoadConfig(fs, base) ==
    LET configData == ReadConfigData(fs)
    IN  IF ~configData.readable THEN base
        ELSE CHOOSE merged \in { MergeParsed(base, text) :
                                    text \in {stripJsonComments(configData.data)} } : TRUE

\* ------------------------------------------------------------------------
\* Inputs: what the host and the user at the editor may supply
\* ------------------------------------------------------------------------
RECURSIVE SeqsUpTo(_, _)
SeqsUpTo(S, n) ==
    IF n = 0 THEN {<<>>}
    ELSE LET shorter == SeqsUpTo(S, n - 1)
         IN  shorter \cup {Append(q, x) : q \in shorter, x \in S}

TextPart(text) ==
    [type |-> "text", text |-> text, tool |-> "", name |-> "", input |-> <<>>, output |-> <<>>]

ToolPart ==
    [type |-> "tool", text |-> <<>>, tool |-> "bash", name |-> "",
     input |-> <<"{}">>, output |-> <<"ok">>]

FilePart ==
    [type |-> "file", text |-> <<>>, tool |-> "", name |-> "", input |-> <<>>, output |-> <<>>]

\* message texts: plain, with leading whitespace, with a line of dashes,
\* quoting the marker
Texts ==
    { <<"hello">>, <<SP, "hello">>, <<"a", NL, DASH, DASH, DASH, NL, "b">>,
      <<"see", SP, editableMarker>> }

Parts == {TextPart(t) : t \in Texts} \cup {ToolPart, FilePart}

Roles == {"user", "assistant"}

Message(role, parts) == [info |-> [role |-> role], parts |-> parts]

\* earlier turns of the conversation
Histories ==
    SeqsUpTo({ Message("user", <<TextPart(<<"see", SP, editableMarker>>)>>) }, MaxHistory)

\* output.messages as the host passes it in
MessageLists ==
    {<<>>} \cup
    { Append(h, Message(r, ps)) : h \in Histories, r \in Roles,
                                  ps \in SeqsUpTo(Parts, MaxParts) }

\* the lists the hooks are run on over successive requests
ShortMessageLists ==
    {<<>>} \cup
    { <<Message(r, ps)>> : r \in Roles,
                           ps \in SeqsUpTo({TextPart(<<SP, "hello">>), ToolPart}, MaxParts) }

\* the LLM requests the host makes: system prompt and model
Requests ==
    { [system |-> << <<"You are a coding agent.">> >>,
       model |-> [providerID |-> "anthropic", modelID |-> "sonnet"]],
      [system |-> << <<"You are a reviewer.">>, <<"Be brief.">> >>,
       model |-> NoModel] }

NoRequest == [system |-> <<>>, model |-> NoModel, sysFired |-> TRUE, msgFired |-> TRUE]

\* the document up to and including the line of its last marker
ThroughMarkerLine(doc) ==
    LET markerIndex == LastIndexOf(doc, <<editableMarker>>)
        lineEnd == IndexOf(doc, <<NL>>, markerIndex)
    IN  IF lineEnd = NotFound THEN doc ELSE Substring(doc, 0, lineEnd)

\* what the user may leave in the file: the document as written, the
\* editable text replaced or deleted, everything below the header line
\* deleted, a marker typed at the end, or only a note
SavedContents(doc) ==
    {doc, doc \o <<editableMarker>>, <<"never mind">>}
    \cup (IF LastIndexOf(doc, <<editableMarker>>) = NotFound THEN {}
          ELSE { ThroughMarkerLine(doc) \o <<NL, NL>> \o <<"goodbye">> \o <<NL, NL>> \o Separator \o <<NL>>,
                 ThroughMarkerLine(doc) \o <<NL, NL>> \o Separator \o <<NL>>,
                 ThroughMarkerLine(doc) })

\* the document as written, or with the editable text replaced
PlainSaves(doc) ==
    {doc}
    \cup (IF LastIndexOf(doc, <<editableMarker>>) = NotFound THEN {}
          ELSE { ThroughMarkerLine(doc) \o <<NL, NL>> \o <<"goodbye">> \o <<NL, NL>> \o Separator \o <<NL>> })

\* the configuration files the runs of the hooks start from
ReadmeExample ==
    << LBRACE, NL,
       "\"logLevel\": \"debug\"", COMMA, NL,
       "\"autoEdit\": true", COMMA, NL,
       LineComment, "Override the editor command", NL,
       "\"messageTypes\": [\"user\"]", NL,
       RBRACE, NL >>

HookConfigFiles ==
    { [jsonc |-> Unreadable, json |-> Unreadable],
      [jsonc |-> FileOf(<<LBRACE, "\"autoEdit\": true", RBRACE>>), json |-> Unreadable],
      [jsonc |-> FileOf(ReadmeExample), json |-> Unreadable],
      [jsonc |-> Unreadable,
       json |-> FileOf(<<LBRACE, "\"autoEdit\": true", COMMA, "\"showSystemMessages\": false", RBRACE>>)],
      [jsonc |-> Unreadable,
       json |-> FileOf(<<LBRACE, "\"autoEdit\": true", COMMA, "\"enableEditor\": false", RBRACE>>)] }

EditConfigFiles ==
    { [jsonc |-> FileOf(<<LBRACE, "\"autoEdit\": true", RBRACE>>), json |-> Unreadable],
      [jsonc |-> FileOf(ReadmeExample), json |-> Unreadable] }

\* every file content of at most MaxConfigTokens tokens, and the example
ConfigTokens ==
    { LBRACE, RBRACE, COMMA, LineComment, BlockOpen, BlockClose, NL, "null",
      "\"autoEdit\": true", "\"enableEditor\": false" }

ConfigFileChoices ==
    {Unreadable} \cup {FileOf(d) : d \in SeqsUpTo(ConfigTokens, MaxConfigTokens) \cup {ReadmeExample}}

FallbackFileChoices ==
    { Unreadable,
      FileOf(<<LBRACE, "\"showSystemMessages\": false", RBRACE>>),
      FileOf(<<LBRACE, "\"autoEdit\": false", COMMA, "\"editor\": \"subl -w\"", RBRACE>>),
      FileOf(<<LBRACE, LBRACE>>) }

\* ------------------------------------------------------------------------
\* Plugin start
\* ------------------------------------------------------------------------
ZeroAnalytics == [messagesIntercepted |-> 0, messagesEdited |-> 0, editorSessions |-> 0]

\* no messages.transform call has left anything behind
CallAtRest ==
    /\ outputMessages = <<>>
    /\ pc = "idle"
    /\ formattedContext = <<>>
    /\ tempFile = 0
    /\ fileText = <<>>
    /\ entry = <<>>
    /\ editorRan = FALSE
    /\ outcome = "none"

\* nothing of the hooks has happened yet
HooksAtRest ==
    /\ analytics = ZeroAnalytics
    /\ capturedSystem = <<>>
    /\ capturedModel = NoModel
    /\ tempDirs = {}
    /\ tempFiles = {}
    /\ CallAtRest

\* the plugin function up to its return statement
PluginStart ==
    /\ ~started
    /\ config' = LoadConfig(cfgFiles, config)
    /\ started' = TRUE
    /\ UNCHANGED <<cfgFiles, analytics, capturedSystem, capturedModel, callVars,
                   tempDirs, tempFiles, req, nRequests>>

\* ------------------------------------------------------------------------
\* The host
\* ------------------------------------------------------------------------
\* the host runs one hook at a time
HookMayFire == started /\ pc \in {"idle", "returned"}

\* the host sends the last request's messages to the LLM and starts its next
\* request, once both hooks of the last have fired
NewRequest(r) ==
    /\ HookMayFire
    /\ nRequests < MaxRequests
    /\ req.sysFired /\ req.msgFired
    /\ req' = [system |-> r.system, model |-> r.model, sysFired |-> FALSE, msgFired |-> FALSE]
    /\ nRequests' = nRequests + 1
    /\ outputMessages' = <<>>
    /\ pc' = "idle"
    /\ formattedContext' = <<>>
    /\ tempFile' = 0
    /\ fileText' = <<>>
    /\ entry' = <<>>
    /\ editorRan' = FALSE
    /\ outcome' = "none"
    /\ UNCHANGED <<cfgFiles, started, pluginVars, tempDirs, tempFiles>>

\* ------------------------------------------------------------------------
\* The hooks
\* ------------------------------------------------------------------------
\* "experimental.chat.system.transform"
SystemTransform ==
    /\ HookMayFire
    /\ ~req.sysFired
    /\ capturedSystem' = req.system
    /\ capturedModel' = req.model
    /\ req' = [req EXCEPT !.sysFired = TRUE]
    /\ UNCHANGED <<cfgFiles, started, config, analytics, callVars, tempDirs, tempFiles,
                   nRequests>>

\* output.messages.map((m) => ({ role: m.info.role, parts: m.parts }))
RoleAndParts(msgs) ==
    [i \in 1..Len(msgs) |-> [role |-> msgs[i].info.role, parts |-> msgs[i].parts]]

hasTextParts(lastMsg) == \E i \in 1..Len(lastMsg.parts) : lastMsg.parts[i].type = "text"

\* EditorWanted with && for || in the first early return
EditorWanted_EitherFlag(cfg, msgs) ==
    /\ ~(~cfg.enableEditor /\ ~cfg.autoEdit)
    /\ Len(msgs) > 0
    /\ hasTextParts(msgs[Len(msgs)])

\* none of the three early returns is taken
EditorWanted(cfg, msgs) ==
    /\ ~(~cfg.enableEditor \/ ~cfg.autoEdit)
    /\ Len(msgs) > 0
    /\ hasTextParts(msgs[Len(msgs)])

\* "experimental.chat.messages.transform", up to its first await
MessagesTransform(msgs) ==
    /\ HookMayFire
    /\ ~req.msgFired
    /\ req' = [req EXCEPT !.msgFired = TRUE]
    /\ analytics' = [analytics EXCEPT !.messagesIntercepted = @ + 1]
    /\ outputMessages' = msgs
    /\ entry' = msgs
    /\ editorRan' = FALSE
    /\ tempFile' = 0
    /\ fileText' = <<>>
    /\ IF EditorWanted(config, msgs)
       THEN /\ formattedContext' =
                   formatFullContext(IF config.showSystemMessages THEN capturedSystem ELSE <<>>,
                                     RoleAndParts(msgs), capturedModel)
            /\ pc' = "mkdtemp"
            /\ outcome' = "none"
       ELSE /\ formattedContext' = <<>>
            /\ pc' = "returned"
            /\ outcome' = "skipped"
    /\ UNCHANGED <<cfgFiles, started, config, capturedSystem, capturedModel, tempDirs,
                   tempFiles, nRequests>>

\* await mkdtemp(...) resolves: a fresh directory, and the path of the file in it
Mkdtemp ==
    /\ pc = "mkdtemp"
    /\ tempDirs' = tempDirs \cup {Cardinality(tempDirs) + 1}
    /\ tempFile' = Cardinality(tempDirs) + 1
    /\ pc' = "writeFile"
    /\ UNCHANGED <<cfgFiles, started, pluginVars, outputMessages, formattedContext, tempFiles,
                   fileText, req, nRequests, entry, editorRan, outcome>>

\* await writeFile(...) resolves and execSync runs the editor, which blocks
\* until the user closes it; the user saved `saved`
EditorSaves(saved) ==
    /\ pc = "writeFile"
    /\ tempFiles' = tempFiles \cup {tempFile}
    /\ fileText' = saved
    /\ editorRan' = TRUE
    /\ analytics' = [analytics EXCEPT !.editorSessions = @ + 1]
    /\ pc' = "readFile"
    /\ UNCHANGED <<cfgFiles, started, config, capturedSystem, capturedModel, outputMessages,
                   formattedContext, tempFile, tempDirs, req, nRequests, entry, outcome>>

\* ... the user moved the file away and closed the editor
EditorRemovesFile ==
    /\ pc = "writeFile"
    /\ tempFiles' = tempFiles \ {tempFile}
    /\ fileText' = <<>>
    /\ editorRan' = TRUE
    /\ analytics' = [analytics EXCEPT !.editorSessions = @ + 1]
    /\ pc' = "readFile"
    /\ UNCHANGED <<cfgFiles, started, config, capturedSystem, capturedModel, outputMessages,
                   formattedContext, tempFile, tempDirs, req, nRequests, entry, outcome>>

\* EditorFails with the session counted before execSync is called
EditorFails_CountedFirst ==
    /\ pc = "writeFile"
    /\ tempFiles' = tempFiles \cup {tempFile}
    /\ fileText' = formattedContext
    /\ editorRan' = TRUE
    /\ analytics' = [analytics EXCEPT !.editorSessions = @ + 1]
    /\ pc' = "returned"
    /\ outcome' = "editorFailed"
    /\ UNCHANGED <<cfgFiles, started, config, capturedSystem, capturedModel, outputMessages,
                   formattedContext, tempFile, tempDirs, req, nRequests, entry>>

\* ... execSync throws (the command is missing or exits with an error): the
\* catch block logs and the hook returns
EditorFails ==
    /\ pc = "writeFile"
    /\ tempFiles' = tempFiles \cup {tempFile}
    /\ fileText' = formattedContext
    /\ editorRan' = TRUE
    /\ pc' = "returned"
    /\ outcome' = "editorFailed"
    /\ UNCHANGED <<cfgFiles, started, pluginVars, outputMessages, formattedContext, tempFile,
                   tempDirs, req, nRequests, entry>>

\* await readFile(...) resolves, or rejects when the file is gone; the
\* marker is looked up and the text spliced in
ReadFile ==
    /\ pc = "readFile"
    /\ IF tempFile \in tempFiles
       THEN LET n == Len(outputMessages)
                spliced == Splice(outputMessages[n].parts, fileText)
            IN  /\ outputMessages' = [outputMessages EXCEPT ![n].parts = spliced.parts]
                /\ analytics' = [analytics EXCEPT !.messagesEdited = @ + spliced.edited]
                /\ pc' = "unlink"
                /\ UNCHANGED outcome
       ELSE /\ pc' = "returned"
            /\ outcome' = "readFailed"
            /\ UNCHANGED <<outputMessages, analytics>>
    /\ UNCHANGED <<cfgFiles, started, config, capturedSystem, capturedModel, formattedContext,
                   tempFile, tempDirs, tempFiles, fileText, req, nRequests, entry, editorRan>>

\* await unlink(tempFile) resolves and the hook returns
Unlink ==
    /\ pc = "unlink"
    /\ tempFiles' = tempFiles \ {tempFile}
    /\ pc' = "returned"
    /\ outcome' = "edited"
    /\ UNCHANGED <<cfgFiles, started, pluginVars, outputMessages, formattedContext, tempFile,
                   tempDirs, fileText, req, nRequests, entry, editorRan>>

\* "chat.message" and "tool.execute.before" only log
ChatMessage ==
    /\ started
    /\ UNCHANGED vars

ToolExecuteBefore ==
    /\ started
    /\ UNCHANGED vars

EventTypes == {"session.created", "session.idle"}

\* event: the bus delivers events whenever the event loop is free, also
\* while messages.transform is suspended at an await
Event(type) ==
    /\ started
    /\ analytics' = IF type = "session.created" THEN ZeroAnalytics ELSE analytics
    /\ UNCHANGED <<cfgFiles, started, config, capturedSystem, capturedModel, callVars,
                   tempDirs, tempFiles, req, nRequests>>

\* ------------------------------------------------------------------------
\* Specifications
\* ------------------------------------------------------------------------
\* Spec: the hooks over successive requests, from the state the plugin
\* function leaves behind
Init ==
    /\ cfgFiles \in HookConfigFiles
    /\ started = TRUE
    /\ config = LoadConfig(cfgFiles, DefaultConfig)
    /\ HooksAtRest
    /\ req = NoRequest
    /\ nRequests = 0

Next ==
    \/ \E r \in Requests : NewRequest(r)
    \/ SystemTransform
    \/ \E msgs \in ShortMessageLists : MessagesTransform(msgs)
    \/ Mkdtemp
    \/ \E saved \in PlainSaves(formattedContext) : EditorSaves(saved)
    \/ EditorRemovesFile
    \/ EditorFails
    \/ ReadFile
    \/ Unlink
    \/ ChatMessage
    \/ ToolExecuteBefore
    \/ \E type \in EventTypes : Event(type)

Spec == Init /\ [][Next]_vars

\* SpecEdit: one request with the editor switched on, over the larger sets
\* of messages and of saved files
InitEdit ==
    /\ cfgFiles \in EditConfigFiles
    /\ started = TRUE
    /\ config = LoadConfig(cfgFiles, DefaultConfig)
    /\ HooksAtRest
    /\ \E r \in Requests :
          req = [system |-> r.system, model |-> r.model, sysFired |-> FALSE, msgFired |-> FALSE]
    /\ nRequests = 1

NextEdit ==
    \/ SystemTransform
    \/ \E msgs \in MessageLists : MessagesTransform(msgs)
    \/ Mkdtemp
    \/ \E saved \in SavedContents(formattedContext) : EditorSaves(saved)
    \/ ReadFile
    \/ Unlink

SpecEdit == InitEdit /\ [][NextEdit]_vars

\* SpecConfig: plugin start, from every pair of configuration files
InitConfig ==
    /\ cfgFiles \in [jsonc : ConfigFileChoices, json : FallbackFileChoices]
    /\ started = FALSE
    /\ config = DefaultConfig
    /\ HooksAtRest
    /\ req = NoRequest
    /\ nRequests = 0

NextConfig == PluginStart

SpecConfig == InitConfig /\ [][NextConfig]_vars

\* ------------------------------------------------------------------------
\* Properties
\* ------------------------------------------------------------------------
InFlight == pc \in {"mkdtemp", "writeFile", "readFile", "unlink"}

\* the splice has run: the file was read back and the marker looked up
Spliced == pc = "unlink" \/ (pc = "returned" /\ outcome = "edited")

LastOf(msgs) == msgs[Len(msgs)]

FirstTextIndex(parts) == SetMin(TextPartIndices(parts))

Contains(s, token) == \E i \in 1..Len(s) : s[i] = token

\* the lines of a text
RECURSIVE SplitLines(_)
SplitLines(s) ==
    LET nl == IndexOf(s, <<NL>>, 0)
    IN  IF nl = NotFound THEN <<s>>
        ELSE <<Substring(s, 0, nl)>> \o SplitLines(SubstringFrom(s, nl + 1))

\* the text below the last line holding the marker, up to the last line that
\* is a separator, trimmed
TextBelowHeader(content) ==
    LET ls == SplitLines(content)
        header == SetMax({i \in 1..Len(ls) : Contains(ls[i], editableMarker)})
        below == SubSeq(ls, header + 1, Len(ls))
        seps == {i \in 1..Len(below) : below[i] = Separator}
        body == IF seps = {} THEN below ELSE SubSeq(below, 1, SetMax(seps) - 1)
    IN  Trim(Join(body, <<NL>>))

\* the saved file holds a line with the marker, and that line is ended
HoldsHeaderLine(content) ==
    /\ Contains(content, editableMarker)
    /\ IndexOf(content, <<NL>>, LastIndexOf(content, <<editableMarker>>)) # NotFound

\* C1: once the editor has exited successfully on a list whose last message
\* is a user message, and the saved file still holds a header line with the
\* marker, the first text part of the last message is the text below the
\* last such line, up to the final separator line, trimmed.
C1_TextBelowHeaderIsSpliced ==
    (Spliced /\ LastOf(entry).info.role = "user" /\ HoldsHeaderLine(fileText))
        => LET parts == LastOf(outputMessages).parts
           IN  parts[FirstTextIndex(parts)].text = TextBelowHeader(fileText)

SameButFirstText(after, before) ==
    /\ Len(after) = Len(before)
    /\ \A i \in 1..(Len(before) - 1) : after[i] = before[i]
    /\ before # <<>> =>
          /\ LastOf(after).info = LastOf(before).info
          /\ Len(LastOf(after).parts) = Len(LastOf(before).parts)
          /\ \A k \in 1..Len(LastOf(before).parts) :
                \/ LastOf(after).parts[k] = LastOf(before).parts[k]
                \/ /\ k = FirstTextIndex(LastOf(before).parts)
                   /\ LastOf(after).parts[k] =
                          [LastOf(before).parts[k] EXCEPT !.text = LastOf(after).parts[k].text]

\* C3: a call changes nothing in output.messages but the text of the first
\* text part of the last message, and that only when the last message is a
\* user message.
C3_OnlyCurrentUserMessageEdited ==
    /\ SameButFirstText(outputMessages, entry)
    /\ (entry # <<>> /\ LastOf(entry).info.role # "user") => outputMessages = entry

\* C4: when the editor document of a call shows a system prompt, it is the
\* system prompt of the request the call belongs to.
C4_RenderedSystemPromptIsCurrent ==
    (InFlight /\ config.showSystemMessages /\ Contains(formattedContext, "## System Prompt"))
        => formattedContext = formatFullContext(req.system, RoleAndParts(entry), capturedModel)

\* C5: a message whose role is not listed in config.messageTypes is neither
\* rendered in the editor document nor edited.
C5_OnlyListedRolesIntercepted ==
    \A i \in 1..Len(entry) :
        entry[i].info.role \notin config.messageTypes =>
            /\ ~Contains(formattedContext, HeaderLabel(i, Len(entry), entry[i].info.role))
            /\ outputMessages[i] = entry[i]

\* C6: the configuration in effect after plugin start is the defaults
\* overridden key by key from .micromanager.jsonc when it can be read, else
\* from .micromanager.json; all defaults when neither can be read or the
\* content does not parse; and plugin start always completes.
C6_ConfigFromFirstReadableFile ==
    LET source == IF cfgFiles.jsonc.readable THEN cfgFiles.jsonc ELSE cfgFiles.json
        text == stripJsonComments(source.data)
    IN  /\ ~started => ENABLED PluginStart
        /\ started =>
              IF source.readable /\ JsonParses(text)
              THEN /\ \A k \in DOMAIN JsonObject(text) : config[k] = JsonObject(text)[k]
                   /\ \A k \in DOMAIN DefaultConfig \ DOMAIN JsonObject(text) :
                         config[k] = DefaultConfig[k]
              ELSE config = DefaultConfig

C6_Witness ==
    /\ started
    /\ cfgFiles.jsonc.readable
    /\ cfgFiles.json.readable
    /\ cfgFiles.json.data = <<LBRACE, "\"autoEdit\": false", COMMA, "\"editor\": \"subl -w\"", RBRACE>>
    /\ config.autoEdit = TRUE
    /\ config.editor = "code -w"

\* C7: when execSync throws, the hook returns without the error, with
\* output.messages as it was passed in, and the step in which it throws
\* counts neither an editor session nor an edited message.
C7_EditorFailureChangesNothing ==
    /\ [](outcome = "editorFailed" => (pc = "returned" /\ outputMessages = entry))
    /\ [][(outcome # "editorFailed" /\ outcome' = "editorFailed")
            => (analytics' = analytics /\ outputMessages' = outputMessages)]_vars

C7_Witness == pc = "returned" /\ outcome = "editorFailed" /\ editorRan

\* C8: when the file is saved as it was written, the call leaves every part
\* of every message as it was.
C8_UneditedRoundTrip ==
    (Spliced /\ fileText = formattedContext) => outputMessages = entry

\* C9: messagesEdited <= editorSessions <= messagesIntercepted, always.
C9_CountersOrdered ==
    /\ analytics.messagesEdited <= analytics.editorSessions
    /\ analytics.editorSessions <= analytics.messagesIntercepted

\* C10: no temp file is left on disk once a call has returned.
C10_NoTempFileRemains ==
    pc \in {"idle", "returned"} => tempFiles = {}

====
